---- MODULE Spec2Model ----
(***************************************************************************)
(* Model of src/src/main.cpp: a list / sub-list menu on an LVGL display,   *)
(* navigated by a rotary encoder, a push button and touch.                 *)
(*                                                                         *)
(* One iteration of loop() is three steps, in the order of the code:       *)
(*   pc = "timer"   : lv_timer_handler() and delay(): time passes and a    *)
(*                    pending touch click (if any) reaches its callback;   *)
(*   pc = "encoder" : handle_encoder_sublist() or handle_encoder_list();   *)
(*   pc = "button"  : handle_button_press().                               *)
(***************************************************************************)
EXTENDS Integers, Sequences, FiniteSets, TLC

VARIABLES
    pc,               \* position inside loop()
    now,              \* milliseconds elapsed since boot (true time)
    counter,          \* main.cpp:40
    aState,           \* main.cpp:41
    aLastState,       \* main.cpp:42
    sublist_counter,  \* main.cpp:45
    showing_sublist,  \* main.cpp:46
    lastPressTime,    \* main.cpp:47
    list_styled,      \* indices i such that list_items[i] carries style_selected
    sublist,          \* main.cpp:60, the state of the widget the pointer names
    sublist_items,    \* main.cpp:61
    nSublists,        \* number of sub-list widgets alive on the screen
    badAccess,        \* an lvgl call was made on a null or deleted object
    lastOp,           \* history: what the last step did, with its inputs
    counterAtEntry,   \* history: counter when the sub-list was last entered
    lastEmit,         \* history: true time of the last accepted press, or -1
    lowPolls,         \* history: the first button polls that read LOW
    held,             \* history: "none", or "held" / "refired" while the button
                      \*   has read LOW at every poll since an accepted press
    lastA,            \* history: phase A as the previous encoder poll sampled it
    exitRun           \* -1 while the user acts freely; once the user has set
                      \*   out to leave the sub-list with encoder and button
                      \*   only, the number of encoder steps applied since

vars == <<pc, now, counter, aState, aLastState, sublist_counter,
          showing_sublist, lastPressTime, list_styled, sublist,
          sublist_items, nSublists, badAccess, lastOp, counterAtEntry,
          lastEmit, lowPolls, held, lastA, exitRun>>

\* The variables a click callback may change.
widgets == <<showing_sublist, sublist, sublist_items, nSublists, badAccess>>

----------------------------------------------------------------------------
(* Program constants *)

list_size == 5
sublist_size == 4
debounceDelay == 300
LVGL_REFRESH_TIME == 20
LOW == 0
HIGH == 1

(* Bounds of the model *)

\* Time stops here: room for seven iterations of 100 ms, or for two presses
\* a debounce window apart and a poll between them.
MaxTime == 702
\* Width of the millisecond counter in the model.  unsigned long has 32 bits
\* on the target; the model keeps the modular arithmetic at a width whose
\* values fit the checker's integers.
TimeBits == 12
\* Number of LOW polls whose time and outcome are recorded.
MaxLog == 3

\* Durations of one lv_timer_handler() + delay(LVGL_REFRESH_TIME): at least
\* the delay, otherwise whatever the GUI work takes.
Dts == {100, 200, 301}

ULongMod == 2 ^ TimeBits

\* A start time shortly before the millisecond counter wraps.
WrapStart == ULongMod - 400

----------------------------------------------------------------------------
(* Values *)

ListIdx == 0 .. (list_size - 1)
SubIdx == 0 .. (sublist_size - 1)

\* An lv_obj_t* held in an item array: what it points to.
\*   state     "null" (never assigned), "live", or "deleted" (dangling)
\*   cb        the LV_EVENT_CLICKED callback registered on the object
\*   user_data the user data registered with the callback
\*   styled    whether style_selected is attached
NullItem == [state |-> "null", cb |-> "none", user_data |-> 0, styled |-> FALSE]

Op(o, x, y) == [op |-> o, x |-> x, y |-> y]

\* Variant: the difference is taken without wrapping.
USub_NoWrap(a, b) == a - b

\* unsigned long subtraction
USub(a, b) == (a - b) % ULongMod

\* millis()
millis == now % ULongMod

\* arr[i] for an lv_obj_t* array; an index outside the array reads garbage.
ItemAt(arr, i) == IF i \in DOMAIN arr THEN arr[i] ELSE NullItem

\* lv_example_list(): the five main items, each with list_event_handler and
\* its own index as user data.  They live for the whole run.
list_items ==
    [i \in ListIdx |->
        [state |-> "live", cb |-> "list_event_handler", user_data |-> i,
         styled |-> i \in list_styled]]

----------------------------------------------------------------------------
(* Widget operations and click callbacks *)

\* Variant: the "Return" callback is registered on the last item.
lv_create_sublist_ReturnLast(parent_item) ==
    /\ showing_sublist' = TRUE
    /\ sublist' = "live"
    /\ nSublists' = nSublists + 1
    /\ sublist_items' =
          [i \in SubIdx |->
              [state |-> "live", cb |-> "sublist_event_handler",
               user_data |-> (sublist_size - 1) - i, styled |-> FALSE]]
    /\ UNCHANGED badAccess

\* lv_create_sublist(parent_item)
lv_create_sublist(parent_item) ==
    /\ showing_sublist' = TRUE
    /\ sublist' = "live"
    /\ nSublists' = nSublists + 1
    /\ sublist_items' =
          [i \in SubIdx |->
              [state |-> "live", cb |-> "sublist_event_handler",
               user_data |-> i, styled |-> FALSE]]
    /\ UNCHANGED badAccess

\* Variant: showing_sublist is not reset.
lv_remove_sublist_KeepFlag ==
    /\ IF sublist = "live"
          THEN /\ nSublists' = nSublists - 1
               /\ UNCHANGED badAccess
          ELSE /\ badAccess' = TRUE
               /\ UNCHANGED nSublists
    /\ sublist' = "deleted"
    /\ sublist_items' =
          [i \in SubIdx |->
              IF sublist_items[i].state = "live"
                 THEN [sublist_items[i] EXCEPT !.state = "deleted"]
                 ELSE sublist_items[i]]
    /\ UNCHANGED showing_sublist

\* lv_remove_sublist(): lv_obj_del(sublist) deletes the list and its
\* children; the pointers in sublist_items are left dangling.
lv_remove_sublist ==
    /\ IF sublist = "live"
          THEN /\ nSublists' = nSublists - 1
               /\ UNCHANGED badAccess
          ELSE /\ badAccess' = TRUE
               /\ UNCHANGED nSublists
    /\ sublist' = "deleted"
    /\ sublist_items' =
          [i \in SubIdx |->
              IF sublist_items[i].state = "live"
                 THEN [sublist_items[i] EXCEPT !.state = "deleted"]
                 ELSE sublist_items[i]]
    /\ showing_sublist' = FALSE

\* Variant: the showing_sublist guard is missing.
list_event_handler_NoGuard(index) ==
    lv_create_sublist(index)

\* list_event_handler(e), index = lv_event_get_user_data(e)
list_event_handler(index) ==
    IF ~showing_sublist
       THEN lv_create_sublist(index)
       ELSE UNCHANGED widgets

\* Variant: "Return" is looked for one past the last item.
sublist_event_handler_NeverReturn(index) ==
    IF index = sublist_size
       THEN lv_remove_sublist
       ELSE UNCHANGED widgets

\* Variant: the last item is taken for "Return".
sublist_event_handler_LastIsReturn(index) ==
    IF index = sublist_size - 1
       THEN lv_remove_sublist
       ELSE UNCHANGED widgets

\* sublist_event_handler(e), index = lv_event_get_user_data(e)
sublist_event_handler(index) ==
    IF index = 0
       THEN lv_remove_sublist
       ELSE UNCHANGED widgets

\* lv_event_send(obj, LV_EVENT_CLICKED, NULL): runs the callback registered
\* on obj with the user data registered with it.
lv_event_send(obj) ==
    IF obj.state # "live"
       THEN /\ badAccess' = TRUE
            /\ UNCHANGED <<showing_sublist, sublist, sublist_items, nSublists>>
       ELSE IF obj.cb = "list_event_handler"
               THEN list_event_handler(obj.user_data)
               ELSE sublist_event_handler(obj.user_data)

----------------------------------------------------------------------------
(* loop(), step 1: lv_timer_handler(); delay(LVGL_REFRESH_TIME) *)

\* The objects a touch click can reach: every live item on the screen.
Clickable ==
    {Op("tap_list", i, 0) : i \in ListIdx}
      \cup {Op("tap_sub", j, 0) : j \in {k \in SubIdx : sublist_items[k].state = "live"}}

(* What the user and the hardware may feed one iteration.  A user who has  *)
(* set out to leave the sub-list (exitRun >= 0) does not touch the screen,  *)
(* turns the encoder one way, a step per iteration, until "Return" (item 0) *)
(* is selected, then presses the button, and is slow enough for the press   *)
(* to pass the debounce test.                                               *)

Leaving == exitRun >= 0

\* Time runs for MaxTime from the start of the run, and for as long as
\* leaving the sub-list may take beyond that.
Horizon ==
    (IF now >= WrapStart THEN WrapStart ELSE 0) + MaxTime
       + (IF Leaving THEN sublist_size * (debounceDelay + 1) ELSE 0)

TimeSteps == IF Leaving THEN {debounceDelay + 1} ELSE Dts

Taps == IF Leaving THEN {Op("none", 0, 0)} ELSE Clickable \cup {Op("none", 0, 0)}

\* pairs <<phase A, phase B>>
EncoderLevels ==
    IF Leaving
       THEN IF sublist_counter # 0
               THEN {<<1 - aLastState, 1 - aLastState>>}
               ELSE {<<aLastState, LOW>>}
       ELSE {LOW, HIGH} \X {LOW, HIGH}

ButtonLevels ==
    IF Leaving
       THEN IF sublist_counter = 0 THEN {LOW} ELSE {HIGH}
       ELSE {LOW, HIGH}

\* Variant: loop() goes from the touch handling straight to the button.
lv_timer_handler_SkipEncoder ==
    /\ pc = "timer"
    /\ Leaving => showing_sublist
    /\ \E dt \in TimeSteps :
          /\ dt >= LVGL_REFRESH_TIME
          /\ now + dt <= Horizon
          /\ now' = now + dt
    /\ \E tap \in Taps :
          /\ CASE tap.op = "tap_list" -> lv_event_send(list_items[tap.x])
               [] tap.op = "tap_sub"  -> lv_event_send(sublist_items[tap.x])
               [] OTHER               -> UNCHANGED widgets
          /\ lastOp' = [tap EXCEPT !.y = IF ~showing_sublist /\ showing_sublist'
                                            THEN 1 ELSE 0]
    /\ counterAtEntry' = IF ~showing_sublist /\ showing_sublist'
                            THEN counter ELSE counterAtEntry
    /\ pc' = "button"
    /\ UNCHANGED <<counter, aState, aLastState, sublist_counter,
                   lastPressTime, list_styled, lastEmit, lowPolls, held, lastA,
                   exitRun>>

\* loop(), lines 324-325
lv_timer_handler ==
    /\ pc = "timer"
    /\ Leaving => showing_sublist
    /\ \E dt \in TimeSteps :
          /\ dt >= LVGL_REFRESH_TIME
          /\ now + dt <= Horizon
          /\ now' = now + dt
    /\ \E tap \in Taps :
          /\ CASE tap.op = "tap_list" -> lv_event_send(list_items[tap.x])
               [] tap.op = "tap_sub"  -> lv_event_send(sublist_items[tap.x])
               [] OTHER               -> UNCHANGED widgets
          /\ lastOp' = [tap EXCEPT !.y = IF ~showing_sublist /\ showing_sublist'
                                            THEN 1 ELSE 0]
    /\ counterAtEntry' = IF ~showing_sublist /\ showing_sublist'
                            THEN counter ELSE counterAtEntry
    /\ pc' = "encoder"
    /\ UNCHANGED <<counter, aState, aLastState, sublist_counter,
                   lastPressTime, list_styled, lastEmit, lowPolls, held, lastA,
                   exitRun>>

----------------------------------------------------------------------------
(* loop(), step 2: the encoder *)

\* The sub-list items that carry style_selected.
SubStyled == {i \in SubIdx : sublist_items[i].styled}

\* for (int i = ...; i < size; i++): lv_obj_add_style on item sel,
\* lv_obj_remove_style on every other one; styled is the set of items that
\* carry style_selected.
RECURSIVE StyleLoop(_, _, _, _)
StyleLoop(styled, i, size, sel) ==
    IF i >= size
       THEN styled
       ELSE StyleLoop(IF i = sel THEN styled \cup {i} ELSE styled \ {i},
                      i + 1, size, sel)

\* Variant: the style of the selected item is toggled instead of added.
UpdateSelectedStyle_Toggle(styled, size, sel) ==
    IF sel \in styled THEN {} ELSE {i \in 0 .. (size - 1) : i = sel}

\* The style update at the end of an encoder step.
UpdateSelectedStyle(styled, size, sel) == StyleLoop(styled, 0, size, sel)

\* Variant: the upper bound test is > instead of >=.
handle_encoder_list_OffByOne(a, b) ==
    /\ aState' = a
    /\ IF a # aLastState
          THEN LET c1 == IF b # a THEN counter + 1 ELSE counter - 1
                   c2 == IF c1 > list_size THEN 0 ELSE c1
                   c3 == IF c2 < 0 THEN list_size - 1 ELSE c2
               IN  /\ counter' = c3
                   /\ list_styled' =
                         (list_styled \cup {i \in ListIdx : i = c3})
                            \ {i \in ListIdx : i # c3}
                   /\ lastOp' = Op("enc_step", a, b)
          ELSE /\ UNCHANGED <<counter, list_styled>>
               /\ lastOp' = Op("enc_idle", a, b)
    /\ aLastState' = a
    /\ UNCHANGED <<sublist_counter, sublist_items, badAccess>>

\* Variant: the two directions are swapped.
handle_encoder_list_Reversed(a, b) ==
    /\ aState' = a
    /\ IF a # aLastState
          THEN LET c1 == IF b = a THEN counter + 1 ELSE counter - 1
                   c2 == IF c1 >= list_size THEN 0 ELSE c1
                   c3 == IF c2 < 0 THEN list_size - 1 ELSE c2
               IN  /\ counter' = c3
                   /\ list_styled' =
                         (list_styled \cup {i \in ListIdx : i = c3})
                            \ {i \in ListIdx : i # c3}
                   /\ lastOp' = Op("enc_step", a, b)
          ELSE /\ UNCHANGED <<counter, list_styled>>
               /\ lastOp' = Op("enc_idle", a, b)
    /\ aLastState' = a
    /\ UNCHANGED <<sublist_counter, sublist_items, badAccess>>

\* handle_encoder_list(), a = digitalRead(outputA), b = digitalRead(outputB)
handle_encoder_list(a, b) ==
    /\ aState' = a
    /\ IF a # aLastState
          THEN LET c1 == IF b # a THEN counter + 1 ELSE counter - 1
                   c2 == IF c1 >= list_size THEN 0 ELSE c1
                   c3 == IF c2 < 0 THEN list_size - 1 ELSE c2
               IN  /\ counter' = c3
                   /\ list_styled' = UpdateSelectedStyle(list_styled, list_size, c3)
                   /\ lastOp' = Op("enc_step", a, b)
          ELSE /\ UNCHANGED <<counter, list_styled>>
               /\ lastOp' = Op("enc_idle", a, b)
    /\ aLastState' = a
    /\ UNCHANGED <<sublist_counter, sublist_items, badAccess>>

\* Variant: the index is clamped at 0 instead of wrapping to the end.
handle_encoder_sublist_Clamp(a, b) ==
    /\ aState' = a
    /\ IF a # aLastState
          THEN LET c1 == IF b # a THEN sublist_counter + 1 ELSE sublist_counter - 1
                   c2 == IF c1 >= sublist_size THEN 0 ELSE c1
                   c3 == IF c2 < 0 THEN 0 ELSE c2
               IN  /\ sublist_counter' = c3
                   /\ sublist_items' =
                         [i \in SubIdx |->
                             [sublist_items[i] EXCEPT !.styled = (i = c3)]]
                   /\ badAccess' =
                         (badAccess \/ \E i \in SubIdx : sublist_items[i].state # "live")
                   /\ lastOp' = Op("enc_step", a, b)
          ELSE /\ UNCHANGED <<sublist_counter, sublist_items, badAccess>>
               /\ lastOp' = Op("enc_idle", a, b)
    /\ aLastState' = a
    /\ UNCHANGED <<counter, list_styled>>

\* Variant: the sampled phase A is not saved.
handle_encoder_sublist_NoStore(a, b) ==
    /\ aState' = a
    /\ IF a # aLastState
          THEN LET c1 == IF b # a THEN sublist_counter + 1 ELSE sublist_counter - 1
                   c2 == IF c1 >= sublist_size THEN 0 ELSE c1
                   c3 == IF c2 < 0 THEN sublist_size - 1 ELSE c2
               IN  /\ sublist_counter' = c3
                   /\ sublist_items' =
                         [i \in SubIdx |->
                             [sublist_items[i] EXCEPT !.styled = (i = c3)]]
                   /\ badAccess' =
                         (badAccess \/ \E i \in SubIdx : sublist_items[i].state # "live")
                   /\ lastOp' = Op("enc_step", a, b)
          ELSE /\ UNCHANGED <<sublist_counter, sublist_items, badAccess>>
               /\ lastOp' = Op("enc_idle", a, b)
    /\ UNCHANGED aLastState
    /\ UNCHANGED <<counter, list_styled>>

\* handle_encoder_sublist()
handle_encoder_sublist(a, b) ==
    /\ aState' = a
    /\ IF a # aLastState
          THEN LET c1 == IF b # a THEN sublist_counter + 1 ELSE sublist_counter - 1
                   c2 == IF c1 >= sublist_size THEN 0 ELSE c1
                   c3 == IF c2 < 0 THEN sublist_size - 1 ELSE c2
               IN  /\ sublist_counter' = c3
                   /\ sublist_items' =
                         [i \in SubIdx |->
                             [sublist_items[i] EXCEPT !.styled =
                                 (i \in UpdateSelectedStyle(SubStyled, sublist_size, c3))]]
                   /\ badAccess' =
                         (badAccess \/ \E i \in SubIdx : sublist_items[i].state # "live")
                   /\ lastOp' = Op("enc_step", a, b)
          ELSE /\ UNCHANGED <<sublist_counter, sublist_items, badAccess>>
               /\ lastOp' = Op("enc_idle", a, b)
    /\ aLastState' = a
    /\ UNCHANGED <<counter, list_styled>>

\* Variant: the main-list handler runs whichever list is shown.
EncoderPoll_AlwaysList ==
    /\ pc = "encoder"
    /\ \E ab \in EncoderLevels :
          /\ handle_encoder_list(ab[1], ab[2])
    /\ lastA' = lastOp'.x
    /\ exitRun' = IF Leaving /\ lastOp'.op = "enc_step" THEN exitRun + 1 ELSE exitRun
    /\ pc' = "button"
    /\ UNCHANGED <<now, showing_sublist, lastPressTime, sublist, nSublists,
                   counterAtEntry, lastEmit, lowPolls, held>>

\* loop(), lines 327-331
EncoderPoll ==
    /\ pc = "encoder"
    /\ \E ab \in EncoderLevels :
          IF showing_sublist
             THEN handle_encoder_sublist(ab[1], ab[2])
             ELSE handle_encoder_list(ab[1], ab[2])
    /\ lastA' = lastOp'.x
    /\ exitRun' = IF Leaving /\ lastOp'.op = "enc_step" THEN exitRun + 1 ELSE exitRun
    /\ pc' = "button"
    /\ UNCHANGED <<now, showing_sublist, lastPressTime, sublist, nSublists,
                   counterAtEntry, lastEmit, lowPolls, held>>

----------------------------------------------------------------------------
(* loop(), step 3: the button *)

Log(accepted) ==
    IF Len(lowPolls) < MaxLog
       THEN Append(lowPolls, [t |-> now, emitted |-> accepted])
       ELSE lowPolls

\* Variant: the click always goes to the main list item.
handle_button_press_MainOnly(level) ==
    IF level = LOW
       THEN LET current_time == millis IN
            IF USub(current_time, lastPressTime) > debounceDelay
               THEN /\ lastPressTime' = current_time
                    /\ lv_event_send(ItemAt(list_items, counter))
                    /\ lastOp' = Op("btn_accept", level, 0)
                    /\ lastEmit' = now
                    /\ lowPolls' = Log(TRUE)
               ELSE /\ UNCHANGED <<lastPressTime, widgets, lastEmit>>
                    /\ lastOp' = Op("btn_reject", level, 0)
                    /\ lowPolls' = Log(FALSE)
       ELSE /\ UNCHANGED <<lastPressTime, widgets, lastEmit, lowPolls>>
            /\ lastOp' = Op("btn_idle", level, 0)

\* Variant: the debounce test is >= instead of >.
handle_button_press_Inclusive(level) ==
    IF level = LOW
       THEN LET current_time == millis IN
            IF USub(current_time, lastPressTime) >= debounceDelay
               THEN /\ lastPressTime' = current_time
                    /\ IF showing_sublist
                          THEN lv_event_send(ItemAt(sublist_items, sublist_counter))
                          ELSE lv_event_send(ItemAt(list_items, counter))
                    /\ lastOp' = Op("btn_accept", level, 0)
                    /\ lastEmit' = now
                    /\ lowPolls' = Log(TRUE)
               ELSE /\ UNCHANGED <<lastPressTime, widgets, lastEmit>>
                    /\ lastOp' = Op("btn_reject", level, 0)
                    /\ lowPolls' = Log(FALSE)
       ELSE /\ UNCHANGED <<lastPressTime, widgets, lastEmit, lowPolls>>
            /\ lastOp' = Op("btn_idle", level, 0)

\* Variant: every LOW poll restarts the debounce window.
handle_button_press_Retrigger(level) ==
    IF level = LOW
       THEN LET current_time == millis IN
            IF USub(current_time, lastPressTime) > debounceDelay
               THEN /\ lastPressTime' = current_time
                    /\ IF showing_sublist
                          THEN lv_event_send(ItemAt(sublist_items, sublist_counter))
                          ELSE lv_event_send(ItemAt(list_items, counter))
                    /\ lastOp' = Op("btn_accept", level, 0)
                    /\ lastEmit' = now
                    /\ lowPolls' = Log(TRUE)
               ELSE /\ lastPressTime' = current_time
                    /\ UNCHANGED <<widgets, lastEmit>>
                    /\ lastOp' = Op("btn_reject", level, 0)
                    /\ lowPolls' = Log(FALSE)
       ELSE /\ UNCHANGED <<lastPressTime, widgets, lastEmit, lowPolls>>
            /\ lastOp' = Op("btn_idle", level, 0)

\* handle_button_press(), level = digitalRead(BUTTON_PIN_2)
handle_button_press(level) ==
    IF level = LOW
       THEN LET current_time == millis IN
            IF USub(current_time, lastPressTime) > debounceDelay
               THEN /\ lastPressTime' = current_time
                    /\ IF showing_sublist
                          THEN lv_event_send(ItemAt(sublist_items, sublist_counter))
                          ELSE lv_event_send(ItemAt(list_items, counter))
                    /\ lastOp' = Op("btn_accept", level, 0)
                    /\ lastEmit' = now
                    /\ lowPolls' = Log(TRUE)
               ELSE /\ UNCHANGED <<lastPressTime, widgets, lastEmit>>
                    /\ lastOp' = Op("btn_reject", level, 0)
                    /\ lowPolls' = Log(FALSE)
       ELSE /\ UNCHANGED <<lastPressTime, widgets, lastEmit, lowPolls>>
            /\ lastOp' = Op("btn_idle", level, 0)

ButtonPoll ==
    /\ pc = "button"
    /\ \E level \in ButtonLevels : handle_button_press(level)
    /\ counterAtEntry' = IF ~showing_sublist /\ showing_sublist'
                            THEN counter ELSE counterAtEntry
    /\ held' = CASE lastOp'.op = "btn_accept" ->
                        (IF held = "none" THEN "held" ELSE "refired")
                 [] lastOp'.op = "btn_reject" -> held
                 [] OTHER -> "none"
    /\ pc' = "timer"
    /\ UNCHANGED <<now, counter, aState, aLastState, sublist_counter,
                   list_styled, lastA, exitRun>>

----------------------------------------------------------------------------
(* The program *)

\* The state when setup() returns.
Init ==
    /\ pc = "timer"
    /\ now = 0
    /\ counter = 0
    /\ aState = 0
    /\ aLastState \in {LOW, HIGH}
    /\ sublist_counter = 0
    /\ showing_sublist = FALSE
    /\ lastPressTime = 0
    /\ list_styled = {}
    /\ sublist = "null"
    /\ sublist_items = [i \in SubIdx |-> NullItem]
    /\ nSublists = 0
    /\ badAccess = FALSE
    /\ lastOp = Op("setup", 0, 0)
    /\ counterAtEntry = 0
    /\ lastEmit = -1
    /\ lowPolls = <<>>
    /\ held = "none"
    /\ lastA = aLastState
    /\ exitRun = -1

Next == lv_timer_handler \/ EncoderPoll \/ ButtonPoll

Spec == Init /\ [][Next]_vars

\* With the sub-list shown, at the start of an iteration, the user sets out
\* to leave it with the encoder and the button.
BeginLeaving ==
    /\ pc = "timer"
    /\ showing_sublist
    /\ ~Leaving
    /\ exitRun' = 0
    /\ UNCHANGED <<pc, now, counter, aState, aLastState, sublist_counter,
                   showing_sublist, lastPressTime, list_styled, sublist,
                   sublist_items, nSublists, badAccess, lastOp, counterAtEntry,
                   lastEmit, lowPolls, held, lastA>>

NextLeaving == Next \/ BeginLeaving

\* The program after running idle (nothing pressed, touched or turned) until
\* shortly before the millisecond counter wraps.
InitWrap ==
    /\ pc = "timer"
    /\ now = WrapStart
    /\ counter = 0
    /\ aState \in {LOW, HIGH}
    /\ aLastState = aState
    /\ sublist_counter = 0
    /\ showing_sublist = FALSE
    /\ lastPressTime = 0
    /\ list_styled = {}
    /\ sublist = "null"
    /\ sublist_items = [i \in SubIdx |-> NullItem]
    /\ nSublists = 0
    /\ badAccess = FALSE
    /\ lastOp = Op("btn_idle", HIGH, 0)
    /\ counterAtEntry = 0
    /\ lastEmit = -1
    /\ lowPolls = <<>>
    /\ held = "none"
    /\ lastA = aLastState
    /\ exitRun = -1

SpecWrap == InitWrap /\ [][Next]_vars

\* loop() runs for ever: an iteration that can run does run.
SpecLeaving == Init /\ [][NextLeaving]_vars /\ WF_vars(Next)

----------------------------------------------------------------------------
(* Steps of interest, told apart by the position in loop() and the record   *)
(* the step leaves in lastOp.                                               *)

\* the encoder poll applied a step; its direction, from the two samples
EncoderStep == pc = "encoder" /\ lastOp'.op = "enc_step"
StepOf(op) == IF op.y # op.x THEN 1 ELSE -1

\* a touch click on main item i / on sub item j
TapList == pc = "timer" /\ lastOp'.op = "tap_list"
TapSub == pc = "timer" /\ lastOp'.op = "tap_sub"

\* the button poll passed the debounce test and sent a click
ButtonAccept == pc = "button" /\ lastOp'.op = "btn_accept"

\* number of accepted presses among the first n recorded LOW polls
RECURSIVE Emitted(_)
Emitted(n) ==
    IF n = 0 THEN 0
    ELSE Emitted(n - 1) + (IF lowPolls[n].emitted THEN 1 ELSE 0)

----------------------------------------------------------------------------
(* Claims *)

\* C1: in every reachable state both selection indices are in range:
\* 0 <= counter < list_size and 0 <= sublist_counter < sublist_size.
C1_IndicesInRange ==
    /\ 0 <= counter /\ counter < list_size
    /\ 0 <= sublist_counter /\ sublist_counter < sublist_size

\* Both indices at their upper end, the last one moved by an encoder step.
C1_Witness ==
    /\ counter = list_size - 1
    /\ sublist_counter = sublist_size - 1
    /\ lastOp.op = "enc_step"

\* C2: an encoder step s in {+1,-1} moves the active selection to
\* (index + s) mod size, on the main list and on the sub-list.
C2_StepWraps ==
    [][EncoderStep =>
          IF showing_sublist
             THEN sublist_counter' = (sublist_counter + StepOf(lastOp')) % sublist_size
             ELSE counter' = (counter + StepOf(lastOp')) % list_size]_vars

\* A +1 step on the main list has just wrapped from list_size-1 to 0 (the
\* fifth step of the scenario at the earliest, five iterations of 100 ms).
C2_Witness ==
    /\ ~showing_sublist
    /\ sublist = "null"
    /\ lastOp.op = "enc_step" /\ StepOf(lastOp) = 1
    /\ counter = 0
    /\ now >= 500

\* C3: right after every Main -> Sub transition the sub-list selection
\* index is 0.
C3_SubIndexZeroOnEntry ==
    [][(~showing_sublist /\ showing_sublist') => sublist_counter' = 0]_vars

\* C4: while the sub-list is shown, and on the step that returns to Main,
\* counter keeps the value it had when the sub-list was entered.
C4_MainIndexKept ==
    [][showing_sublist => (counter' = counterAtEntry /\ counter = counterAtEntry)]_vars

\* Back in Main by a tap on "Return", after encoder steps in the sub-list,
\* with the main index where it was.
C4_Witness ==
    /\ ~showing_sublist
    /\ lastOp.op = "tap_sub" /\ lastOp.x = 0
    /\ sublist_counter = 2
    /\ counter = 3 /\ counterAtEntry = 3

\* C5: a click on a main-list item while the sub-list is shown changes
\* nothing: still Sub, the same single sub-list, both indices as before.
C5_ReentryIgnored ==
    [][(showing_sublist /\ TapList) =>
          /\ showing_sublist'
          /\ UNCHANGED <<sublist, sublist_items, nSublists, counter, sublist_counter>>]_vars

\* A main item was tapped while a sub-list with a highlighted item (so one
\* that the encoder already moved in) was on the screen.
C5_Witness ==
    /\ showing_sublist
    /\ lastOp.op = "tap_list"
    /\ nSublists = 1
    /\ \E i \in SubIdx : sublist_items[i].styled

\* C6: in Sub, a tap or an accepted confirm on a sub-item other than
\* "Return" (index 0) changes nothing: still Sub, the sub-list alive, both
\* indices as before.
C6_NonTerminalNoop ==
    [][(showing_sublist /\ (\/ (TapSub /\ lastOp'.x # 0)
                            \/ (ButtonAccept /\ sublist_counter # 0))) =>
          /\ showing_sublist'
          /\ UNCHANGED <<sublist, sublist_items, nSublists, counter, sublist_counter>>]_vars

\* An accepted confirm on the highlighted sub-item 3 left the sub-list up.
C6_Witness ==
    /\ showing_sublist
    /\ lastOp.op = "btn_accept"
    /\ sublist_counter = 3
    /\ sublist_items[3].styled

\* C7: an accepted confirm does to the navigation state, the sub-list and
\* both indices what the click callback of the active list does for the
\* current selection index.
C7_ConfirmIsTap ==
    [][ButtonAccept =>
          /\ IF showing_sublist
                THEN sublist_event_handler(sublist_counter)
                ELSE list_event_handler(counter)
          /\ UNCHANGED <<counter, sublist_counter>>]_vars

\* A confirm on "Return" took the sub-list down.
C7_Witness ==
    /\ lastOp.op = "btn_accept"
    /\ ~showing_sublist
    /\ sublist = "deleted"

\* C8 as stated: in Sub with the selection at index 3, an accepted confirm
\* leads to Main.
C8_ConfirmAtThreeReturns ==
    [][(showing_sublist /\ sublist_counter = 3 /\ ButtonAccept) => ~showing_sublist']_vars

\* C8 amended: in Sub an accepted confirm leads to Main exactly when the
\* selection is at index 0, where "Return" is; at index 3 the state stays Sub.
C8_ConfirmAtZeroReturns ==
    [][(showing_sublist /\ ButtonAccept) => (~showing_sublist' <=> sublist_counter = 0)]_vars

\* A confirm with the selection on index 0 ended the sub-list.
C8_Witness ==
    /\ lastOp.op = "btn_accept"
    /\ ~showing_sublist
    /\ sublist_counter = 0
    /\ nSublists = 0 /\ sublist = "deleted"

\* C9: a button poll emits a press iff the level is LOW and
\* now - lastPressTime > debounceDelay; lastPressTime becomes now on
\* emission and is unchanged otherwise; two emissions are more than
\* debounceDelay apart.
C9_DebounceGate ==
    [][pc = "button" =>
          LET emitted == lastOp'.op = "btn_accept" IN
          /\ emitted <=> (lastOp'.x = LOW /\ now - lastPressTime > debounceDelay)
          /\ emitted => (lastPressTime' = now /\ lastEmit' = now)
          /\ ~emitted => lastPressTime' = lastPressTime
          /\ (emitted /\ lastEmit # -1) => now - lastEmit > debounceDelay]_vars

\* A second press has just been emitted.
C9_Witness ==
    /\ lastOp.op = "btn_accept"
    /\ lastEmit = now
    /\ \E i \in 1 .. Len(lowPolls) : lowPolls[i].emitted /\ lowPolls[i].t < now

\* C10: of two LOW polls at t1 < t2, the first ones since boot, exactly one
\* is emitted if t2 - t1 < debounceDelay and both are if t2 - t1 > debounceDelay.
C10_TwoSignals ==
    Len(lowPolls) = 2 =>
        LET d == lowPolls[2].t - lowPolls[1].t IN
        /\ d < debounceDelay => Emitted(2) = 1
        /\ d > debounceDelay => Emitted(2) = 2

\* C11: while the button stays LOW after an accepted press, a poll emits
\* no press as long as now - (time of that press) <= debounceDelay and emits
\* the next press at the first poll where it is > debounceDelay.
C11_HeldButtonRefires ==
    [][(pc = "button" /\ held # "none" /\ lastOp'.x = LOW) =>
          /\ lastPressTime = lastEmit
          /\ (lastOp'.op = "btn_accept") <=> (now - lastEmit > debounceDelay)
          /\ (lastOp'.op = "btn_reject") <=> (now - lastEmit <= debounceDelay)]_vars

\* The held button has just fired again, after a poll inside the window
\* that emitted nothing.
C11_Witness ==
    /\ held = "refired"
    /\ lastOp.op = "btn_accept"
    /\ Len(lowPolls) = 3
    /\ lowPolls[1].emitted /\ ~lowPolls[2].emitted /\ lowPolls[3].emitted
    /\ lowPolls[3].t = now

\* C12: an encoder poll applies no step when the sampled phase A equals
\* aLastState; otherwise it applies exactly one step to the active selection
\* and to nothing else, +1 if the sampled phase B differs from phase A and
\* -1 if not.
C12_Decode ==
    [][pc = "encoder" =>
          LET a == lastOp'.x
              b == lastOp'.y
              d == IF b # a THEN 1 ELSE -1
          IN  IF a = aLastState
                 THEN /\ lastOp'.op = "enc_idle"
                      /\ UNCHANGED <<counter, sublist_counter>>
                 ELSE /\ lastOp'.op = "enc_step"
                      /\ IF showing_sublist
                            THEN /\ sublist_counter' = (sublist_counter + d) % sublist_size
                                 /\ UNCHANGED counter
                            ELSE /\ counter' = (counter + d) % list_size
                                 /\ UNCHANGED sublist_counter]_vars

\* The fourth poll of a run in Main sampled A = 0, B = 1 on an A-edge and
\* stepped +1 back to index 0 (as the samples 0,1,1,0 with B at 1 do: -1 on
\* the rising edge, +1 on the falling one).
C12_Witness ==
    /\ now = 400 /\ pc = "button"
    /\ ~showing_sublist /\ sublist = "null"
    /\ lastOp = Op("enc_step", 0, 1)
    /\ counter = 0 /\ list_styled = {0}

\* C13: every encoder poll leaves aLastState at the phase A it sampled, and
\* no other step writes it; so a poll applies a step exactly when its sample
\* differs from the previous poll's, whatever happened to the lists between.
C13_LastStateTracksSample ==
    [][/\ aLastState = lastA
       /\ pc = "encoder" =>
             /\ aLastState' = lastOp'.x
             /\ aState' = lastOp'.x
             /\ (lastOp'.op = "enc_step") <=> (lastOp'.x # lastA)
       /\ pc # "encoder" => aLastState' = aLastState]_vars

\* A sub-list was opened after steps on the main list, and the poll that
\* followed found phase A as before and applied no step.
C13_Witness ==
    /\ pc = "button"
    /\ showing_sublist
    /\ lastOp.op = "enc_idle" /\ aLastState = lastOp.x
    /\ counter = 2 /\ list_styled = {2}
    /\ \A i \in SubIdx : ~sublist_items[i].styled

\* C14: at the end of every iteration of loop(), the first one included,
\* exactly the item of the active list at the current selection index
\* carries the selected style.
C14_HighlightMatchesSelection ==
    (pc = "timer" /\ lastOp.op # "setup") =>
        IF showing_sublist
           THEN SubStyled = {sublist_counter}
           ELSE list_styled = {counter}

\* C15: the style update is idempotent: applied once more, with the index
\* it has just been run for, to the active list it leaves the set of styled
\* items as it is.
C15_HighlightIdempotent ==
    [][EncoderStep =>
          IF showing_sublist
             THEN UpdateSelectedStyle(SubStyled', sublist_size, sublist_counter') = SubStyled'
             ELSE UpdateSelectedStyle(list_styled', list_size, counter') = list_styled']_vars

\* The update has just run on the sub-list and left item 2, the selected
\* one, as the only styled item.
C15_Witness ==
    /\ lastOp.op = "enc_step"
    /\ showing_sublist
    /\ sublist_counter = 2
    /\ SubStyled = {2}

\* C16: every iteration of loop() handles touch, then polls the encoder
\* once, then polls the button once.  The encoder step goes to the list that
\* is active once the touch callbacks of the iteration have run, and an
\* accepted confirm clicks the item at the index the encoder step of the
\* iteration has left.
C16_LoopOrder ==
    [][/\ pc = "timer" => pc' = "encoder"
       /\ pc = "encoder" =>
             /\ pc' = "button"
             /\ showing_sublist' = showing_sublist
             /\ EncoderStep =>
                   IF showing_sublist
                      THEN sublist_counter' # sublist_counter /\ counter' = counter
                      ELSE counter' # counter /\ sublist_counter' = sublist_counter
       /\ pc = "button" =>
             /\ pc' = "timer"
             /\ ButtonAccept =>
                   lv_event_send(IF showing_sublist
                                    THEN sublist_items[sublist_counter]
                                    ELSE list_items[counter])]_vars

\* One iteration, the first: a tap opened the sub-list, the encoder step
\* went to the sub-list (no main item was styled), and the confirm clicked
\* sub-item 1, where that step had put the selection, so the sub-list stayed.
C16_Witness ==
    /\ now = 301 /\ pc = "timer"
    /\ lastOp.op = "btn_accept"
    /\ showing_sublist
    /\ sublist_counter = 1 /\ SubStyled = {1}
    /\ counter = 0 /\ list_styled = {}

\* C17: while the sub-list is shown, the program state holds the index of
\* the main item it was opened from: right after the click on main item
\* lastOp.x has opened it, one of the integer variables of the program has
\* that value.
C17_ParentRecorded ==
    (showing_sublist /\ lastOp.op = "tap_list" /\ lastOp.y = 1) =>
        lastOp.x \in {counter, sublist_counter, aState, aLastState, lastPressTime}

\* C18: a sub-list widget exists exactly when showing_sublist is set, and
\* never more than one; the items in sublist_items are alive exactly then;
\* no lvgl call (delete, style, click) was ever made on a missing or
\* deleted object.
C18_OneSublistIffShowing ==
    /\ nSublists = (IF showing_sublist THEN 1 ELSE 0)
    /\ showing_sublist <=> sublist = "live"
    /\ \A i \in SubIdx : showing_sublist <=> sublist_items[i].state = "live"
    /\ ~badAccess

\* A second sub-list is on the screen: the index left over from the first
\* one is not 0 and no item of the new one has been styled yet.
C18_Witness ==
    /\ showing_sublist /\ nSublists = 1
    /\ lastOp.op = "btn_accept"
    /\ sublist_counter = 2
    /\ SubStyled = {}

\* C19: the sub-list is no trap for a user with encoder and button only:
\* from any state with the sub-list shown, turning the encoder one way takes
\* at most sublist_size - 1 steps to get to where an accepted confirm leads
\* back to Main.
C19_SublistIsLeft ==
    /\ [](exitRun <= sublist_size - 1)
    /\ Leaving ~> ~showing_sublist

\* Back in Main by a confirm, after the full sublist_size - 1 steps.
C19_Witness ==
    /\ exitRun = sublist_size - 1
    /\ ~showing_sublist
    /\ lastOp.op = "btn_accept"

\* C20: the debounce test is right across the wrap of the millisecond
\* counter: as long as less than 2^w ms have passed since the last accepted
\* press, the wrapped difference of the two wrapped time stamps is the time
\* that has truly passed, and a LOW poll is accepted iff that is more than
\* debounceDelay.
C20_DebounceAcrossWrap ==
    [][(pc = "button" /\ lastOp'.x = LOW /\ lastEmit # -1
          /\ now - lastEmit < ULongMod) =>
          /\ lastPressTime = lastEmit % ULongMod
          /\ ((now % ULongMod) - lastPressTime) % ULongMod = now - lastEmit
          /\ (lastOp'.op = "btn_accept") <=> (now - lastEmit > debounceDelay)]_vars

\* A press accepted after the wrap, the one before it accepted before the
\* wrap.
C20_Witness ==
    /\ lastOp.op = "btn_accept"
    /\ now >= ULongMod
    /\ lastPressTime = now - ULongMod
    /\ lastEmit = now
    /\ \E i \in 1 .. Len(lowPolls) : lowPolls[i].emitted /\ lowPolls[i].t < ULongMod

====
